---- MODULE Spec2Model ----
(***************************************************************************)
(* Model of gempy/plot/visualization_2d.py : class PlotData2D.              *)
(*                                                                         *)
(* The external geological model (grid, surfaces, faults, topography,     *)
(* solution arrays) is the variable `model`; the attributes built by       *)
(* PlotData2D.__init__ are `_color_lot`, `_cmap` and `_norm`; the plotting   *)
(* library's global figure context is `fig`, the sequence of drawing calls  *)
(* issued so far; `ret` is the outcome (return value or exception) of the   *)
(* last call of a method and `ncalls` the number of methods called so far.  *)
(***************************************************************************)
EXTENDS Integers, Sequences, FiniteSets, TLC

VARIABLES model, _color_lot, _cmap, _norm, fig, ret, ncalls

vars == <<model, _color_lot, _cmap, _norm, fig, ret, ncalls>>

(***************************************************************************)
(* Bounds of the model.                                                    *)
(***************************************************************************)
\* largest number of cells along one grid axis
MaxRes == 2
\* largest cell_number passed to a method (cell numbers are 0 .. MaxCell)
MaxCell == 1
\* largest number of rows of the surfaces table
MaxSurf == 2
\* largest number of method calls made on one object
MaxCalls == 1

(***************************************************************************)
(* Python outcomes: a call either returns a value or raises.               *)
(***************************************************************************)
Ok(v) == [err |-> "none", val |-> v]
Raise(e) == [err |-> e, val |-> <<>>]

(***************************************************************************)
(* Python dict, kept as the sequence of its (key, value) items in          *)
(* insertion order.                                                        *)
(***************************************************************************)
DictKeys(d) == {d[i][1] : i \in 1..Len(d)}
DictHas(d, k) == k \in DictKeys(d)
DictGet(d, k) == d[CHOOSE i \in 1..Len(d) : d[i][1] = k][2]
\* mutant of DictSet: every assignment appends an item, also for a key present
DictSet_AlwaysAppend(d, k, v) == Append(d, <<k, v>>)
\* d[k] = v : overwrite the item of an existing key, append a new key
DictSet(d, k, v) ==
    IF DictHas(d, k)
    THEN [i \in 1..Len(d) |-> IF d[i][1] = k THEN <<k, v>> ELSE d[i]]
    ELSE Append(d, <<k, v>>)
\* dict(zip(keys, values)) : items inserted left to right
RECURSIVE DictZip(_, _)
DictZip(ks, vs) ==
    IF Len(ks) = 0 \/ Len(vs) = 0 THEN <<>>
    ELSE LET n == IF Len(ks) < Len(vs) THEN Len(ks) ELSE Len(vs)
         IN DictSet(DictZip(SubSeq(ks, 1, n - 1), SubSeq(vs, 1, n - 1)), ks[n], vs[n])

(***************************************************************************)
(* numpy arrays: a shape and the elements in row-major (C) order.          *)
(***************************************************************************)
RECURSIVE Prod(_)
Prod(s) == IF Len(s) = 0 THEN 1 ELSE s[1] * Prod(Tail(s))

NdArray(shape, data) == [shape |-> shape, data |-> data]

\* ndarray.reshape(r0, r1, r2): a new array object over the same elements
reshape(arr, shape) ==
    IF Prod(shape) # Len(arr.data) THEN Raise("ValueError")
    ELSE Ok(NdArray(shape, arr.data))

\* index objects: an integer, slice(start, stop) or the full slice `::step`
IntIdx(n) == [kind |-> "int", start |-> n, stop |-> n, step |-> 1]
Slice(lo, hi) == [kind |-> "slice", start |-> lo, stop |-> hi, step |-> 1]
FullSlice(step) == [kind |-> "full", start |-> 0, stop |-> 0, step |-> step]

Min(a, b) == IF a < b THEN a ELSE b

\* the 0-based positions an index object selects on an axis of length n
AxisSel(ix, n) ==
    IF ix.kind = "int"
    THEN <<IF ix.start < 0 THEN ix.start + n ELSE ix.start>>
    ELSE LET lo == IF ix.kind = "full" THEN 0 ELSE Min(ix.start, n)
             hi == IF ix.kind = "full" THEN n ELSE Min(ix.stop, n)
             cnt == IF hi <= lo THEN 0 ELSE (hi - lo + ix.step - 1) \div ix.step
         IN [i \in 1..cnt |-> lo + (i - 1) * ix.step]

IdxInRange(ix, n) == ix.kind # "int" \/ (ix.start >= -n /\ ix.start < n)

\* arr[a, b, c] on a 3D array: integer axes are dropped from the shape
Index3(arr, a, b, c) ==
    LET R == arr.shape
        sa == AxisSel(a, R[1])
        sb == AxisSel(b, R[2])
        sc == AxisSel(c, R[3])
        la == Len(sa)
        lb == Len(sb)
        lc == Len(sc)
        keep == (IF a.kind = "int" THEN <<>> ELSE <<la>>) \o
                (IF b.kind = "int" THEN <<>> ELSE <<lb>>) \o
                (IF c.kind = "int" THEN <<>> ELSE <<lc>>)
    IN IF ~(IdxInRange(a, R[1]) /\ IdxInRange(b, R[2]) /\ IdxInRange(c, R[3]))
       THEN Raise("IndexError")
       ELSE Ok(NdArray(keep,
               [n \in 1..(la * lb * lc) |->
                   LET i == (n - 1) \div (lb * lc)
                       j == ((n - 1) \div lc) % lb
                       k == (n - 1) % lc
                   IN arr.data[sa[i + 1] * R[2] * R[3] + sb[j + 1] * R[3] + sc[k + 1] + 1]]))

\* mutant of T: the slice is handed on without being transposed
T_NotTransposed(arr) == arr
\* arr.T of a 2D array
T(arr) ==
    LET m == arr.shape[1]
        n == arr.shape[2]
    IN NdArray(<<n, m>>,
               [q \in 1..(m * n) |-> arr.data[((q - 1) % m) * n + ((q - 1) \div m) + 1]])

\* extent[[i0, i1, i2, i3]] : fancy indexing with 0-based positions
Take(extent, idx) == [i \in 1..Len(idx) |-> extent[idx[i] + 1]]

(***************************************************************************)
(* PlotData2D._slice(direction, cell_number)                               *)
(***************************************************************************)
\* mutant of _slice: an unrecognised direction falls back to the default 'y'
_slice_DefaultY(m, direction, cell_number) ==
    LET res == m.grid.resolution
        d == IF direction \in {"x", "y", "z"} THEN direction ELSE "y"
    IN Ok([a |-> IF d = "x" THEN IntIdx(cell_number) ELSE Slice(0, res[1]),
           b |-> IF d = "y" THEN IntIdx(cell_number) ELSE Slice(0, res[2]),
           c |-> IF d = "z" THEN IntIdx(cell_number) ELSE Slice(0, res[3]),
           extent_val |-> Take(m.grid.extent,
                               CASE d = "x" -> <<2, 3, 4, 5>>
                                 [] d = "y" -> <<0, 1, 4, 5>>
                                 [] OTHER -> <<1, 2, 3, 4>>),
           x |-> IF d = "x" THEN "Y" ELSE "X",
           y |-> IF d = "z" THEN "Y" ELSE "Z",
           Gx |-> IF d = "x" THEN "G_y" ELSE "G_x",
           Gy |-> IF d = "z" THEN "G_y" ELSE "G_z"])

_slice(m, direction, cell_number) ==
    LET res == m.grid.resolution
        _a == Slice(0, res[1])
        _b == Slice(0, res[2])
        _c == Slice(0, res[3])
    IN CASE direction = "x" ->
              Ok([a |-> IntIdx(cell_number), b |-> _b, c |-> _c,
                  extent_val |-> Take(m.grid.extent, <<2, 3, 4, 5>>),
                  x |-> "Y", y |-> "Z", Gx |-> "G_y", Gy |-> "G_z"])
         [] direction = "y" ->
              Ok([a |-> _a, b |-> IntIdx(cell_number), c |-> _c,
                  extent_val |-> Take(m.grid.extent, <<0, 1, 4, 5>>),
                  x |-> "X", y |-> "Z", Gx |-> "G_x", Gy |-> "G_z"])
         [] direction = "z" ->
              Ok([a |-> _a, b |-> _b, c |-> IntIdx(cell_number),
                  extent_val |-> Take(m.grid.extent, <<1, 2, 3, 4>>),
                  x |-> "X", y |-> "Y", Gx |-> "G_x", Gy |-> "G_y"])
         [] OTHER -> Raise("AttributeError")


\* mutant of _slice2D: the extent of a 'z' section is taken from positions
\* 0..3 of the grid extent
_slice2D_ExtentFromZero(m, cell_number, direction) ==
    CASE direction = "x" ->
           Ok([a |-> IntIdx(cell_number), b |-> FullSlice(1), c |-> FullSlice(1),
               extent |-> Take(m.grid.extent, <<2, 3, 4, 5>>)])
      [] direction = "y" ->
           Ok([a |-> FullSlice(1), b |-> IntIdx(cell_number), c |-> FullSlice(1),
               extent |-> Take(m.grid.extent, <<0, 1, 4, 5>>)])
      [] direction = "z" ->
           Ok([a |-> FullSlice(1), b |-> FullSlice(1), c |-> IntIdx(cell_number),
               extent |-> Take(m.grid.extent, <<0, 1, 2, 3>>)])
      [] OTHER -> Raise("UnboundLocalError")

\* PlotData2D._slice2D(cell_number, direction): an unrecognised direction
\* prints a message and then reads the unassigned locals _slice and extent
_slice2D(m, cell_number, direction) ==
    CASE direction = "x" ->
           Ok([a |-> IntIdx(cell_number), b |-> FullSlice(1), c |-> FullSlice(1),
               extent |-> Take(m.grid.extent, <<2, 3, 4, 5>>)])
      [] direction = "y" ->
           Ok([a |-> FullSlice(1), b |-> IntIdx(cell_number), c |-> FullSlice(1),
               extent |-> Take(m.grid.extent, <<0, 1, 4, 5>>)])
      [] direction = "z" ->
           Ok([a |-> FullSlice(1), b |-> FullSlice(1), c |-> IntIdx(cell_number),
               extent |-> Take(m.grid.extent, <<1, 2, 3, 4>>)])
      [] OTHER -> Raise("UnboundLocalError")

(***************************************************************************)
(* The external model object.                                              *)
(***************************************************************************)
\* direction arguments: the three cartesian directions and two other values
Directions == {"x", "y", "z", "w", "X"}
ValidDirections == {"x", "y", "z"}
Cells == 0..MaxCell

\* model.grid.extent : (xmin, xmax, ymin, ymax, zmin, zmax)
Extents == {<<0, 10, 20, 40, 50, 80>>, <<-5, 5, -5, 5, -9, 0>>}

Resolutions == {<<r0, r1, r2>> : r0 \in 1..MaxRes, r1 \in 1..MaxRes, r2 \in 1..MaxRes}

SurfaceNames == {"rock1", "rock2"}
Colors == {"#015482", "#9f0052"}
SurfaceRows == [surface : SurfaceNames, color : Colors]
\* model.surfaces.df : every table of at most MaxSurf rows
SurfaceTables == UNION {[1..n -> SurfaceRows] : n \in 0..MaxSurf}
SurfaceColumns == {"surface", "series", "order_surfaces", "color", "id"}

\* flat solution arrays over the n cells of the grid
Arange(n, from) == NdArray(<<n>>, [i \in 1..n |-> from + i - 1])
Cyclic(n, k) == NdArray(<<n>>, [i \in 1..n |-> ((i - 1) % k) + 1])
FlatArrays(n) == {Arange(n, 0), Cyclic(n, 2)}

\* model.grid.values[:, c] : coordinate c of every cell, in cell order
GridValues(res, c) ==
    NdArray(<<Prod(res)>>,
            [n \in 1..Prod(res) |->
                CASE c = 0 -> (n - 1) \div (res[2] * res[3])
                  [] c = 1 -> ((n - 1) \div res[3]) % res[2]
                  [] OTHER -> (n - 1) % res[3]])

\* model.faults : the series that are faults, none or one
FaultSeries == {<<>>, <<"Fault_Series">>}

\* the series of the model: the fault series come first
SeriesOf(faults) == faults \o <<"Strat_Series">>

MkModel(res, ext, rows, faults, topo) ==
    [grid |-> [resolution |-> res, extent |-> ext],
     surfaces |-> [columns |-> SurfaceColumns, rows |-> rows],
     series |-> SeriesOf(faults),
     faults |-> faults,
     topography |-> topo,
     surface_points |-> <<[series |-> "Strat_Series", surface |-> "rock1"],
                          [series |-> "Removed_Series", surface |-> "rock2"]>>,
     orientations |-> <<[series |-> "Strat_Series", surface |-> "rock1"]>>,
     solutions |-> [lith_block |-> Cyclic(Prod(res), 2),
                    fault_blocks |-> Cyclic(Prod(res), 3),
                    scalar_field_matrix |->
                        [i \in 1..(Len(faults) + 1) |-> Arange(Prod(res), 10 * i)],
                    scalar_field_at_surface_points |->
                        [i \in 1..(Len(faults) + 1) |-> <<0, 10 * i + 1>>]]]

(***************************************************************************)
(* PlotData2D.__init__                                                     *)
(***************************************************************************)
Column(rows, col) == [i \in 1..Len(rows) |-> rows[i][col]]

\* self._color_lot = dict(zip(df['surface'], df['color']))
ColorLot(m) == DictZip(Column(m.surfaces.rows, "surface"), Column(m.surfaces.rows, "color"))
\* self._cmap = ListedColormap(list(df['color'])) : the list of colours
Cmap(m) == Column(m.surfaces.rows, "color")
\* self._norm = Normalize(vmin=0.5, vmax=len(colors)+0.5), in halves
Norm(cm) == [vmin2 |-> 1, vmax2 |-> 2 * Len(cm) + 1]

\* the record of the last call: the method, its direction and cell_number
\* arguments, the exception raised ("none" if it returned), the value returned,
\* the other arguments, the drawing calls it issued and its warnings
NoRet == [op |-> "none", direction |-> "", cell_number |-> 0, err |-> "none",
          val |-> <<>>, args |-> <<>>, calls |-> <<>>, warn |-> <<>>]
PureRet(op, direction, cell_number, o) ==
    [NoRet EXCEPT !.op = op, !.direction = direction, !.cell_number = cell_number,
                  !.err = o.err, !.val = o.val]
Ret(op, direction, cell_number, o, args) ==
    [op |-> op, direction |-> direction, cell_number |-> cell_number, err |-> o.err,
     val |-> o.val, args |-> args, calls |-> o.calls, warn |-> o.warn]

\* the object under construction: the attributes are not yet assigned
InitNew ==
    /\ model \in {MkModel(<<1, 1, 1>>, ext, rows, faults, FALSE) :
                    ext \in Extents, rows \in SurfaceTables, faults \in FaultSeries}
    /\ _color_lot = <<>>
    /\ _cmap = <<>>
    /\ _norm = [vmin2 |-> 0, vmax2 |-> 0]
    /\ fig = <<>>
    /\ ret = NoRet
    /\ ncalls = 0

__init__ ==
    /\ ret.op = "none"
    /\ _color_lot' = ColorLot(model)
    /\ _cmap' = Cmap(model)
    /\ _norm' = Norm(Cmap(model))
    /\ ret' = [NoRet EXCEPT !.op = "__init__"]
    /\ UNCHANGED <<model, fig, ncalls>>

NextInit == __init__

SpecInit == InitNew /\ [][NextInit]_vars

(***************************************************************************)
(* The slicing helpers applied on their own.                               *)
(***************************************************************************)
\* the state after construction, for every grid and extent
InitSlice ==
    /\ model \in {MkModel(res, ext, <<>>, <<>>, FALSE) :
                    res \in Resolutions, ext \in Extents}
    /\ _color_lot = ColorLot(model)
    /\ _cmap = Cmap(model)
    /\ _norm = Norm(_cmap)
    /\ fig = <<>>
    /\ ret = [NoRet EXCEPT !.op = "__init__"]
    /\ ncalls = 0

\* plot_block[_a, _b, _c].T of plot_block_section and plot_scalar_field:
\* the reshaped array, its slice and the transposed slice
Section(m, block, direction, cell_number) ==
    LET pb == reshape(block, m.grid.resolution)
        s == _slice(m, direction, cell_number)
        sec == Index3(pb.val, s.val.a, s.val.b, s.val.c)
    IN IF pb.err # "none" THEN pb
       ELSE IF s.err # "none" THEN s
       ELSE IF sec.err # "none" THEN sec
       ELSE Ok([section |-> sec.val, image |-> T(sec.val), extent |-> s.val.extent_val,
                x |-> s.val.x, y |-> s.val.y])

call_slice ==
    \E direction \in Directions, cell_number \in Cells :
        /\ ret' = PureRet("_slice", direction, cell_number, _slice(model, direction, cell_number))
        /\ UNCHANGED <<model, _color_lot, _cmap, _norm, fig, ncalls>>

call_slice2D ==
    \E direction \in Directions, cell_number \in Cells :
        /\ ret' = PureRet("_slice2D", direction, cell_number, _slice2D(model, cell_number, direction))
        /\ UNCHANGED <<model, _color_lot, _cmap, _norm, fig, ncalls>>

call_section ==
    \E direction \in Directions, cell_number \in Cells,
       block \in FlatArrays(Prod(model.grid.resolution)) :
        /\ ret' = PureRet("section", direction, cell_number, Section(model, block, direction, cell_number))
        /\ UNCHANGED <<model, _color_lot, _cmap, _norm, fig, ncalls>>

NextSlice == call_slice \/ call_slice2D \/ call_section

SpecSlice == InitSlice /\ [][NextSlice]_vars

(***************************************************************************)
(* Drawing calls and the outcome of a method.                              *)
(***************************************************************************)
NoArr == NdArray(<<>>, <<>>)

\* one call of the plotting library: the function, its array argument, extent,
\* aspect (a fraction <<num, den>>), levels, keyword arguments, labels/columns,
\* palette or legend items, the table plotted, further arrays, and points
Draw(fn) == [fn |-> fn, arr |-> NoArr, extent |-> <<>>, aspect |-> <<>>, levels |-> <<>>,
             kw |-> <<>>, text |-> <<>>, items |-> <<>>, table |-> <<>>, arrays |-> <<>>,
             pts |-> <<>>]

\* a method's outcome: the exception raised ("none" if it returned), the
\* drawing calls it issued before that, the warnings it emitted and its value
Done(calls) == [err |-> "none", calls |-> calls, warn |-> <<>>, val |-> "None"]
Fail(e, calls) == [err |-> e, calls |-> calls, warn |-> <<>>, val |-> "None"]

\* statement sequencing: the second part runs only if the first did not raise
Then(o1, o2) ==
    IF o1.err # "none" THEN o1
    ELSE [err |-> o2.err, calls |-> o1.calls \o o2.calls, warn |-> o1.warn \o o2.warn,
          val |-> o2.val]

\* f(..., name=value, **kwargs): a key of kwargs that is also passed by name
\* is a TypeError; otherwise every item of kwargs is passed on
KwCall(d, reserved, kwargs) ==
    IF DictKeys(kwargs) \cap reserved # {} THEN Fail("TypeError", <<>>)
    ELSE Done(<<[d EXCEPT !.kw = d.kw \o kwargs]>>)

Range(f) == {f[i] : i \in DOMAIN f}

(***************************************************************************)
(* PlotData2D.plot_data                                                    *)
(***************************************************************************)
\* default of the cell_number parameter of _slice
DefaultCell == 25
ScatterKwsDefault == "marker=D,s=100,edgecolors=black,linewidths=1"
LmplotNamed == {"x", "y", "data", "fit_reg", "aspect", "hue", "legend", "legend_out",
                "palette"}

\* aspect < 1 for the floating-point quotient num/den (a zero denominator gives
\* inf, -inf or nan, not an exception)
LessThanOne(q) ==
    \/ q[2] > 0 /\ q[1] < q[2]
    \/ q[2] < 0 /\ q[1] > q[2]
    \/ q[2] = 0 /\ q[1] < 0

\* mutant of plot_data: the points are drawn before the direction is examined
plot_data_DrawsFirst(m, cl, direction, data_type, series, ve, kwargs, subscriptable) ==
    LET s == _slice(m, direction, DefaultCell)
        drawn == <<[Draw("lmplot") EXCEPT !.items = cl, !.kw = kwargs]>>
    IN IF s.err # "none" THEN Fail(s.err, drawn) ELSE Done(drawn)

\* `subscriptable` : whether the tables of the external model support
\* model.surface_points[mask], which is used for a series other than "all"
plot_data(m, cl, direction, data_type, series, ve, kwargs, subscriptable) ==
    LET kw == IF DictHas(kwargs, "scatter_kws") THEN kwargs
              ELSE DictSet(kwargs, "scatter_kws", ScatterKwsDefault)
        s == _slice(m, direction, DefaultCell)
        e == s.val.extent_val
        aspect == <<e[2] - e[1],
                    (e[4] - e[3]) * (IF direction = "x" \/ direction = "y" THEN ve ELSE 1)>>
        min_axis == IF LessThanOne(aspect) THEN "width" ELSE "height"
        InSeries(row) == IF series = "all" THEN row.series \in Range(m.series)
                         ELSE row.series = series
        series_to_plot_i == SelectSeq(m.surface_points, InSeries)
        series_to_plot_f == SelectSeq(m.orientations, InSeries)
        lmplot == KwCall([Draw("lmplot") EXCEPT
                             !.text = <<s.val.x, s.val.y>>,
                             !.aspect = aspect,
                             !.items = cl,
                             !.table = series_to_plot_i,
                             !.kw = << <<"fit_reg", "False">>, <<"hue", "surface">>,
                                       <<"legend", "False">>, <<"legend_out", "False">> >>],
                         LmplotNamed, kw)
        lims == Done(<<[Draw("set_ylim") EXCEPT !.extent = <<e[3], e[4]>>],
                       [Draw("set_xlim") EXCEPT !.extent = <<e[1], e[2]>>]>>)
        quiver(scale) ==
            Done(<<[Draw("quiver") EXCEPT
                       !.text = <<s.val.x, s.val.y, s.val.Gx, s.val.Gy>>,
                       !.table = series_to_plot_f,
                       !.kw = << <<"pivot", "tail">>, <<"scale_units", min_axis>>,
                                 <<"scale", scale>> >>]>>)
        all == IF data_type = "all" THEN Then(lmplot, Then(lims, quiver("10")))
               ELSE Done(<<>>)
        points == IF data_type = "surface_points" THEN Then(lmplot, lims) ELSE Done(<<>>)
        orient == IF data_type = "orientations" THEN quiver("15") ELSE Done(<<>>)
        labels == Done(<<[Draw("legend") EXCEPT
                             !.kw = << <<"bbox_to_anchor", "(1.05, 1)">>, <<"loc", "2">>,
                                       <<"borderaxespad", "0.">> >>],
                         [Draw("xlabel") EXCEPT !.text = <<s.val.x>>],
                         [Draw("ylabel") EXCEPT !.text = <<s.val.y>>]>>)
    IN IF s.err # "none" THEN Fail(s.err, <<>>)
       ELSE IF series # "all" /\ ~subscriptable THEN Fail("TypeError", <<>>)
       ELSE Then(all, Then(points, Then(orient, labels)))

(***************************************************************************)
(* PlotData2D.plot_topography                                              *)
(***************************************************************************)
\* model.topography._line_in_section for the directions 'x' and 'y': the
\* profile of the topography along the section, one (h, z) row per point
LineInSection(m, direction) ==
    LET e == IF direction = "x" THEN Take(m.grid.extent, <<2, 3, 4, 5>>)
             ELSE Take(m.grid.extent, <<0, 1, 4, 5>>)
    IN NdArray(<<2, 2>>, <<e[1], e[4] - 2, e[2], e[4] - 1>>)

\* `line_ok` : whether the external _line_in_section returns a line for a
\* direction other than 'x' and 'y' (otherwise it raises)
plot_topography(m, cell_number, direction, line_ok) ==
    LET line == LineInSection(m, direction)
        ext == IF direction = "x" THEN Take(m.grid.extent, <<2, 3, 4, 5>>)
               ELSE Take(m.grid.extent, <<0, 1, 4, 5>>)
        \* np.append(line, corners).reshape(-1, 2)
        flat == line.data \o <<ext[2], line.data[2], ext[2], ext[4],
                               ext[1], ext[4], ext[1], line.data[2]>>
        poly == NdArray(<<Len(flat) \div 2, 2>>, flat)
    IN IF ~m.topography THEN Fail("AttributeError", <<>>)
       ELSE IF direction \notin {"x", "y"} /\ ~line_ok THEN Fail("ExternalError", <<>>)
       ELSE IF direction \notin {"x", "y"} THEN Fail("UnboundLocalError", <<>>)
       ELSE Done(<<[Draw("fill") EXCEPT
                       !.arr = poly,
                       !.kw = << <<"color", "k">>, <<"alpha", "0.5">> >>]>>)

(***************************************************************************)
(* PlotData2D.extract_fault_lines                                          *)
(***************************************************************************)
OrderOf(m, s) == CHOOSE i \in 1..Len(m.series) : m.series[i] = s
NonZero(v) == v # 0

FaultContour(m, cm, sl, fault) ==
    LET f_id == OrderOf(m, fault) - 1
        block == m.solutions.scalar_field_matrix[f_id + 1]
        level == SelectSeq(m.solutions.scalar_field_at_surface_points[f_id + 1], NonZero)
        rs == reshape(block, m.grid.resolution)
        sec == Index3(rs.val, sl.a, sl.b, sl.c)
    IN IF rs.err # "none" THEN Fail(rs.err, <<>>)
       ELSE IF sec.err # "none" THEN Fail(sec.err, <<>>)
       ELSE IF f_id + 1 > Len(cm) THEN Fail("IndexError", <<>>)
       ELSE Done(<<[Draw("contour") EXCEPT
                       !.arr = T(sec.val),
                       !.extent = sl.extent,
                       !.levels = level,
                       !.kw = << <<"colors", cm[f_id + 1]>> >>]>>)

RECURSIVE FaultLoop(_, _, _, _)
FaultLoop(m, cm, sl, faults) ==
    IF Len(faults) = 0 THEN Done(<<>>)
    ELSE Then(FaultContour(m, cm, sl, Head(faults)), FaultLoop(m, cm, sl, Tail(faults)))

\* mutant of extract_fault_lines: the fault contours are never drawn
extract_fault_lines_NoContours(m, cm, cell_number, direction) ==
    LET s2 == _slice2D(m, cell_number, direction)
    IN IF s2.err # "none" THEN Fail(s2.err, <<>>) ELSE Done(<<>>)

extract_fault_lines(m, cm, cell_number, direction) ==
    LET s2 == _slice2D(m, cell_number, direction)
    IN IF s2.err # "none" THEN Fail(s2.err, <<>>)
       ELSE FaultLoop(m, cm, s2.val, m.faults)

(***************************************************************************)
(* PlotData2D.plot_block_section                                           *)
(***************************************************************************)
\* the `block` argument: None (the default), an array, or a string
BlockNone == [kind |-> "None", arr |-> NoArr]
BlockArray(a) == [kind |-> "array", arr |-> a]
BlockStr == [kind |-> "str", arr |-> NoArr]

\* `block_type is 'lithology'` compares object identity: it is true only when
\* the argument is the same string object as the literal of the method
\* (`literal`), not whenever the two strings are equal
Is(block_type, lit) == block_type.str = lit /\ block_type.literal

\* lines 273-286: the array chosen for plotting; `bound` tells whether the
\* local _block has been assigned at all
SelectBlock(m, solution, block, block_type) ==
    IF block.kind # "str"
    THEN [err |-> "none", warn |-> <<"FutureWarning">>, bound |-> TRUE,
          isarray |-> block.kind = "array", arr |-> block.arr]
    ELSE IF Is(block_type, "lithology")
    THEN [err |-> "none", warn |-> <<>>, bound |-> TRUE, isarray |-> TRUE,
          arr |-> solution.lith_block]
    ELSE IF Is(block_type, "fault1")
    THEN [err |-> "none", warn |-> <<>>, bound |-> TRUE, isarray |-> TRUE,
          arr |-> solution.fault_blocks]
    ELSE IF block_type.str \in m.surfaces.columns
    THEN [err |-> "none", warn |-> <<>>, bound |-> FALSE, isarray |-> FALSE, arr |-> NoArr]
    ELSE [err |-> "AssertionError", warn |-> <<>>, bound |-> FALSE, isarray |-> FALSE,
          arr |-> NoArr]

ImshowNamed == {"origin", "extent", "interpolation", "aspect"}

\* the surface legend: one patch per item of the colour lookup
Patches(cl) == [i \in 1..Len(cl) |-> [color |-> cl[i][2], label |-> cl[i][1]]]

plot_block_section(m, cl, cm, solution, cell_number, block, direction, interpolation, plot_data_, block_type, ve, show_faults, show_topo, kwargs, line_ok) ==
    LET sel == SelectBlock(m, solution, block, block_type)
        rs == reshape(sel.arr, m.grid.resolution)
        s == _slice(m, direction, cell_number)
        data == IF plot_data_ THEN plot_data(m, cl, direction, "all", "all", 1, <<>>, TRUE)
                ELSE Done(<<>>)
        aspect == IF direction = "x" \/ direction = "y" THEN <<ve, 1>> ELSE <<1, 1>>
        kw1 == IF DictHas(kwargs, "cmap") THEN kwargs ELSE DictSet(kwargs, "cmap", "self._cmap")
        kw2 == IF DictHas(kw1, "norm") THEN kw1 ELSE DictSet(kw1, "norm", "self._norm")
        sec == Index3(rs.val, s.val.a, s.val.b, s.val.c)
        imshow == IF sec.err # "none" THEN Fail(sec.err, <<>>)
                  ELSE KwCall([Draw("imshow") EXCEPT
                                  !.arr = T(sec.val),
                                  !.extent = s.val.extent_val,
                                  !.aspect = aspect,
                                  !.kw = << <<"origin", "bottom">>,
                                            <<"interpolation", interpolation>> >>],
                              ImshowNamed, kw2)
        faults == IF show_faults THEN extract_fault_lines(m, cm, cell_number, direction)
                  ELSE Done(<<>>)
        topo == IF show_topo /\ m.topography
                THEN plot_topography(m, cell_number, direction, line_ok)
                ELSE Done(<<>>)
        legend == IF ~plot_data_
                  THEN Done(<<[Draw("legend") EXCEPT
                                  !.items = Patches(cl),
                                  !.kw = << <<"handles", "patches">>,
                                            <<"bbox_to_anchor", "(1.05, 1)">>, <<"loc", "2">>,
                                            <<"borderaxespad", "0.">> >>]>>)
                  ELSE Done(<<>>)
        labels == [Done(<<[Draw("xlabel") EXCEPT !.text = <<s.val.x>>],
                          [Draw("ylabel") EXCEPT !.text = <<s.val.y>>]>>)
                   EXCEPT !.val = "figure"]
        body == IF ~sel.bound THEN Fail("UnboundLocalError", <<>>)
                ELSE IF ~sel.isarray THEN Fail("AttributeError", <<>>)
                ELSE IF rs.err # "none" THEN Fail(rs.err, <<>>)
                ELSE IF s.err # "none" THEN Fail(s.err, <<>>)
                ELSE Then(data, Then(imshow, Then(faults, Then(topo, Then(legend, labels)))))
    IN IF sel.err # "none" THEN Fail(sel.err, <<>>)
       ELSE [body EXCEPT !.warn = sel.warn \o body.warn]

(***************************************************************************)
(* PlotData2D.plot_scalar_field                                            *)
(***************************************************************************)
\* the `solution` argument: a Solution object or an array passed directly
SolutionObj == [kind |-> "Solution", arr |-> NoArr]
SolutionArray(a) == [kind |-> "array", arr |-> a]

plot_scalar_field(m, cl, solution, cell_number, series, N, direction, plot_data_, kwargs) ==
    LET isSol == solution.kind = "Solution"
        scalar_field == IF isSol THEN m.solutions.scalar_field_matrix[series + 1]
                        ELSE solution.arr
        kw == IF DictHas(kwargs, "cmap") THEN kwargs ELSE DictSet(kwargs, "cmap", "magma")
        data == IF plot_data_ THEN plot_data(m, cl, direction, "all", "all", 1, <<>>, TRUE)
                ELSE Done(<<>>)
        s == _slice(m, direction, cell_number)
        rs == reshape(scalar_field, m.grid.resolution)
        sec == Index3(rs.val, s.val.a, s.val.b, s.val.c)
        contour(fn, named, explicit) ==
            IF rs.err # "none" THEN Fail(rs.err, <<>>)
            ELSE IF sec.err # "none" THEN Fail(sec.err, <<>>)
            ELSE KwCall([Draw(fn) EXCEPT
                            !.arr = T(sec.val),
                            !.levels = <<N>>,
                            !.extent = s.val.extent_val,
                            !.kw = explicit],
                        named, kw)
        colorbar == IF DictHas(kw, "colorbar") THEN Done(<<Draw("colorbar")>>)
                    ELSE Done(<<>>)
        labels == Done(<<[Draw("xlabel") EXCEPT !.text = <<s.val.x>>],
                         [Draw("ylabel") EXCEPT !.text = <<s.val.y>>]>>)
        body == Then(data,
                Then(IF s.err # "none" THEN Fail(s.err, <<>>) ELSE Done(<<>>),
                Then(contour("contour", {"extent"}, <<>>),
                Then(contour("contourf", {"extent", "alpha"}, << <<"alpha", "0.6">> >>),
                Then(colorbar, labels)))))
    IN IF isSol /\ series + 1 > Len(m.solutions.scalar_field_matrix)
       THEN Fail("IndexError", <<>>)
       ELSE [body EXCEPT !.warn = (IF isSol THEN <<>> ELSE <<"FutureWarning">>) \o body.warn]

(***************************************************************************)
(* PlotData2D.plot_gradient                                                *)
(***************************************************************************)
\* default number of contour levels of plot_scalar_field
DefaultN == 20

\* the index [::step, cell, ::step], [cell, ::step, ::step], [::step, ::step, cell]
StrideIndex(direction, cell_number, step) ==
    [a |-> IF direction = "x" THEN IntIdx(cell_number) ELSE FullSlice(step),
     b |-> IF direction = "y" THEN IntIdx(cell_number) ELSE FullSlice(step),
     c |-> IF direction = "z" THEN IntIdx(cell_number) ELSE FullSlice(step)]

\* the keyword arguments of plot_gradient are accepted and never used
plot_gradient(m, cl, scalar_field, gx, gy, gz, cell_number, quiver_stepsize, direction, plot_scalar, kwargs) ==
    LET scalar == IF plot_scalar
                  THEN plot_scalar_field(m, cl, SolutionArray(scalar_field), cell_number, 0,
                                         DefaultN, direction, FALSE, <<>>)
                  ELSE Done(<<>>)
        ix == StrideIndex(direction, cell_number, quiver_stepsize)
        Cut(arr) == Index3(reshape(arr, m.grid.resolution).val, ix.a, ix.b, ix.c)
        u == CASE direction = "x" -> gy [] OTHER -> gx
        v == CASE direction = "z" -> gy [] OTHER -> gz
        c1 == CASE direction = "x" -> 1 [] OTHER -> 0
        c2 == CASE direction = "z" -> 1 [] OTHER -> 2
        U == Cut(u)
        V == Cut(v)
        X == Cut(GridValues(m.grid.resolution, c1))
        Y == Cut(GridValues(m.grid.resolution, c2))
        quiver ==
            IF quiver_stepsize = 0 THEN Fail("ValueError", <<>>)
            ELSE IF U.err # "none" THEN Fail(U.err, <<>>)
            ELSE Done(<<[Draw("quiver") EXCEPT
                            !.arrays = <<T(X.val), T(Y.val), T(U.val), T(V.val)>>,
                            !.kw = << <<"pivot", "tail">>, <<"color", "blue">>,
                                      <<"alpha", ".6">> >>]>>)
    IN IF direction \in {"x", "y", "z"} THEN Then(scalar, quiver)
       ELSE Fail("AttributeError", <<>>)

(***************************************************************************)
(* PlotData2D.plot_topo_g                                                  *)
(***************************************************************************)
\* dict.update(other) for keyword dictionaries; None leaves the defaults
RECURSIVE DictUpdate(_, _)
DictUpdate(d, other) ==
    IF Len(other) = 0 THEN d
    ELSE DictUpdate(DictSet(d, other[1][1], other[1][2]), Tail(other))

\* str(node) for a node numbered 0 .. 9
Str(n) == <<"0", "1", "2", "3", "4", "5", "6", "7", "8", "9">>[n + 1]

\* centroid * e / r + d as the fraction <<centroid * e + d * r, r>>
Scaled(c, e, r, d) == <<c * e + d * r, r>>

\* lines 380-409: the plane of projection; for an unrecognised direction no
\* local is assigned (bound = FALSE)
TopoPlane(geo_data, centroids, direction) ==
    LET ext == geo_data.grid.extent
        res == geo_data.grid.resolution
        flat == Len(centroids[1][2]) = 2
    IN CASE direction = "y" ->
              [bound |-> TRUE, c1 |-> 0, c2 |-> IF flat THEN 1 ELSE 2,
               e1 |-> ext[2] - ext[1], e2 |-> ext[6] - ext[5], d1 |-> ext[1], d2 |-> ext[5],
               r1 |-> res[1], r2 |-> res[3]]
         [] direction = "x" ->
              [bound |-> TRUE, c1 |-> IF flat THEN 0 ELSE 1, c2 |-> IF flat THEN 1 ELSE 2,
               e1 |-> ext[4] - ext[3], e2 |-> ext[6] - ext[5], d1 |-> ext[3], d2 |-> ext[5],
               r1 |-> res[2], r2 |-> res[3]]
         [] direction = "z" ->
              [bound |-> TRUE, c1 |-> 0, c2 |-> 1,
               e1 |-> ext[2] - ext[1], e2 |-> ext[4] - ext[3], d1 |-> ext[1], d2 |-> ext[3],
               r1 |-> res[1], r2 |-> res[2]]
         [] OTHER ->
              [bound |-> FALSE, c1 |-> 0, c2 |-> 0, e1 |-> 0, e2 |-> 0, d1 |-> 0, d2 |-> 0,
               r1 |-> 1, r2 |-> 1]

NodeDraws(pl, centroids, tkw, node) ==
    LET c == DictGet(centroids, node)
        px == Scaled(c[pl.c1 + 1], pl.e1, pl.r1, pl.d1)
        py == Scaled(c[pl.c2 + 1], pl.e2, pl.r2, pl.d2)
    IN <<[Draw("plot") EXCEPT
             !.pts = <<px, py>>,
             !.kw = << <<"marker", "o">>, <<"color", "black">>, <<"markersize", "10">>,
                       <<"alpha", "0.75">> >>],
         [Draw("text") EXCEPT !.pts = <<px, py>>, !.text = <<Str(node)>>, !.kw = tkw]>>

RECURSIVE NodeLoop(_, _, _, _)
NodeLoop(pl, centroids, tkw, nodes) ==
    IF Len(nodes) = 0 THEN <<>>
    ELSE NodeDraws(pl, centroids, tkw, Head(nodes)) \o NodeLoop(pl, centroids, tkw, Tail(nodes))

\* the body of `for edge in G.edges()`: the edge, then every node of G
EdgeDraws(pl, G, centroids, tkw, lkw, edge) ==
    LET ca == DictGet(centroids, edge[1])
        cb == DictGet(centroids, edge[2])
    IN <<[Draw("plot") EXCEPT
             !.pts = <<Scaled(ca[pl.c1 + 1], pl.e1, pl.r1, pl.d1),
                       Scaled(cb[pl.c1 + 1], pl.e1, pl.r1, pl.d1),
                       Scaled(ca[pl.c2 + 1], pl.e2, pl.r2, pl.d2),
                       Scaled(cb[pl.c2 + 1], pl.e2, pl.r2, pl.d2)>>,
             !.kw = lkw]>>
       \o NodeLoop(pl, centroids, tkw, G.nodes)

RECURSIVE EdgeLoop(_, _, _, _, _, _)
EdgeLoop(pl, G, centroids, tkw, lkw, edges) ==
    IF Len(edges) = 0 THEN <<>>
    ELSE EdgeDraws(pl, G, centroids, tkw, lkw, Head(edges))
         \o EdgeLoop(pl, G, centroids, tkw, lkw, Tail(edges))

plot_topo_g(geo_data, G, centroids, direction, label_kwargs, node_kwargs, edge_kwargs) ==
    LET pl == TopoPlane(geo_data, centroids, direction)
        tkw == DictUpdate(<< <<"color", "white">>, <<"size", "10">>, <<"ha", "center">>,
                             <<"va", "center">>, <<"weight", "ultralight">>,
                             <<"family", "monospace">> >>, label_kwargs)
        lkw == DictUpdate(<< <<"linewidth", "0.75">>, <<"color", "black">> >>, edge_kwargs)
    IN IF direction \in {"x", "y", "z"} /\ Len(centroids) = 0 THEN Fail("IndexError", <<>>)
       ELSE IF Len(G.edges) = 0 THEN Done(<<>>)
       ELSE IF ~pl.bound THEN Fail("UnboundLocalError", <<>>)
       ELSE Done(EdgeLoop(pl, G, centroids, tkw, lkw, G.edges))

(***************************************************************************)
(* The plotting methods called on a constructed PlotData2D.                *)
(***************************************************************************)
MainResolutions == {<<2, 1, 2>>, <<1, 2, 3>>}
MainExtent == <<0, 10, 20, 40, 50, 80>>
MainTables == {<<>>,
               <<[surface |-> "rock1", color |-> "#015482"],
                 [surface |-> "rock2", color |-> "#9f0052"]>>}
\* direction arguments of the methods: the cartesian directions and another
MainDirections == {"x", "y", "z", "w"}

\* the figure context before the first call: empty, or holding a drawing
\* made earlier by the caller
PriorFigures == {<<>>, <<Draw("plot")>>}

Init ==
    /\ model \in {MkModel(res, MainExtent, rows, faults, topo) :
                    res \in MainResolutions, rows \in MainTables,
                    faults \in FaultSeries, topo \in BOOLEAN}
    /\ _color_lot = ColorLot(model)
    /\ _cmap = Cmap(model)
    /\ _norm = Norm(_cmap)
    /\ fig \in PriorFigures
    /\ ret = [NoRet EXCEPT !.op = "__init__"]
    /\ ncalls = 0

\* vertical exaggerations
Ves == {1, 2}
\* keyword arguments of the callers
Kw(k, v) == << <<k, v>> >>
DataKwargs == {<<>>, Kw("scatter_kws", "user_kws"), Kw("height", "7"), Kw("aspect", "2")}
BlockKwargs == {<<>>, Kw("cmap", "viridis") \o Kw("alpha", "0.5"), Kw("norm", "user_norm"),
                Kw("extent", "user_extent")}
ScalarKwargs == {<<>>, Kw("cmap", "viridis"), Kw("alpha", "0.5"), Kw("colorbar", "True")}
GradientKwargs == {<<>>, Kw("cmap", "viridis")}

\* block_type arguments: the literals of the method, equal strings that are
\* other objects, a column of the surfaces table and a string that is neither
BlockTypes == {[str |-> "lithology", literal |-> TRUE], [str |-> "lithology", literal |-> FALSE],
               [str |-> "fault1", literal |-> TRUE], [str |-> "fault1", literal |-> FALSE],
               [str |-> "id", literal |-> TRUE], [str |-> "porosity", literal |-> TRUE]}
DefaultBlockType == [str |-> "lithology", literal |-> TRUE]

\* the block arguments and, for a string block only, the block types
BlockArgs(m) ==
    {<<BlockNone, DefaultBlockType>>, <<BlockArray(m.solutions.lith_block), DefaultBlockType>>}
    \cup {<<BlockStr, bt>> : bt \in BlockTypes}

\* whether the external _line_in_section returns for this direction
LineOks(direction) == IF direction \in {"x", "y"} THEN {TRUE} ELSE BOOLEAN

do_plot_data ==
    /\ ncalls < MaxCalls
    /\ \E direction \in MainDirections, data_type \in {"all", "surface_points", "orientations"},
       series \in {"all", "Strat_Series"}, ve \in Ves, kwargs \in DataKwargs :
      \E subscriptable \in (IF series = "all" THEN {TRUE} ELSE BOOLEAN) :
        LET o == plot_data(model, _color_lot, direction, data_type, series, ve, kwargs,
                           subscriptable)
        IN /\ ncalls' = ncalls + 1
           /\ fig' = fig \o o.calls
           /\ ret' = Ret("plot_data", direction, DefaultCell, o,
                         [data_type |-> data_type, series |-> series, ve |-> ve,
                          kwargs |-> kwargs])
           /\ UNCHANGED <<model, _color_lot, _cmap, _norm>>

do_plot_block_section ==
    /\ ncalls < MaxCalls
    /\ \E cell_number \in Cells, direction \in MainDirections, plot_data_ \in BOOLEAN, ve \in Ves,
       show_faults \in BOOLEAN, show_topo \in BOOLEAN, kwargs \in BlockKwargs,
       b \in BlockArgs(model) :
      \E line_ok \in LineOks(direction) :
        LET o == plot_block_section(model, _color_lot, _cmap, model.solutions, cell_number,
                                    b[1], direction, "none", plot_data_, b[2], ve,
                                    show_faults, show_topo, kwargs, line_ok)
        IN /\ ncalls' = ncalls + 1
           /\ fig' = fig \o o.calls
           /\ ret' = Ret("plot_block_section", direction, cell_number, o,
                         [block |-> b[1], block_type |-> b[2], plot_data |-> plot_data_,
                          ve |-> ve, show_faults |-> show_faults, show_topo |-> show_topo,
                          kwargs |-> kwargs, line_ok |-> line_ok])
           /\ UNCHANGED <<model, _color_lot, _cmap, _norm>>

\* mutant of do_plot_scalar_field: the colormap chosen for the contours is
\* stored on the object
do_plot_scalar_field_StoresCmap ==
    /\ ncalls < MaxCalls
    /\ \E cell_number \in Cells, direction \in MainDirections, plot_data_ \in BOOLEAN,
          kwargs \in ScalarKwargs :
        LET o == plot_scalar_field(model, _color_lot, SolutionObj, cell_number, 0, DefaultN,
                                   direction, plot_data_, kwargs)
        IN /\ ncalls' = ncalls + 1
           /\ fig' = fig \o o.calls
           /\ ret' = Ret("plot_scalar_field", direction, cell_number, o,
                         [solution |-> SolutionObj, series |-> 0, plot_data |-> plot_data_,
                          kwargs |-> kwargs])
           /\ _cmap' = <<IF DictHas(kwargs, "cmap") THEN DictGet(kwargs, "cmap") ELSE "magma">>
           /\ UNCHANGED <<model, _color_lot, _norm>>

do_plot_scalar_field ==
    /\ ncalls < MaxCalls
    /\ \E cell_number \in Cells, direction \in MainDirections, plot_data_ \in BOOLEAN,
       series \in {0, 1}, kwargs \in ScalarKwargs,
       solution \in {SolutionObj, SolutionArray(model.solutions.scalar_field_matrix[1])} :
        LET o == plot_scalar_field(model, _color_lot, solution, cell_number, series, DefaultN,
                                   direction, plot_data_, kwargs)
        IN /\ ncalls' = ncalls + 1
           /\ fig' = fig \o o.calls
           /\ ret' = Ret("plot_scalar_field", direction, cell_number, o,
                         [solution |-> solution, series |-> series, plot_data |-> plot_data_,
                          kwargs |-> kwargs])
           /\ UNCHANGED <<model, _color_lot, _cmap, _norm>>

do_plot_gradient ==
    /\ ncalls < MaxCalls
    /\ \E cell_number \in Cells, direction \in MainDirections, plot_scalar \in BOOLEAN,
       quiver_stepsize \in {1, 2}, kwargs \in GradientKwargs :
        LET n == Prod(model.grid.resolution)
            o == plot_gradient(model, _color_lot, model.solutions.scalar_field_matrix[1],
                               Arange(n, 100), Arange(n, 200), Arange(n, 300), cell_number,
                               quiver_stepsize, direction, plot_scalar, kwargs)
        IN /\ ncalls' = ncalls + 1
           /\ fig' = fig \o o.calls
           /\ ret' = Ret("plot_gradient", direction, cell_number, o,
                         [quiver_stepsize |-> quiver_stepsize, plot_scalar |-> plot_scalar,
                          kwargs |-> kwargs])
           /\ UNCHANGED <<model, _color_lot, _cmap, _norm>>

do_extract_fault_lines ==
    /\ ncalls < MaxCalls
    /\ \E cell_number \in Cells, direction \in MainDirections :
        LET o == extract_fault_lines(model, _cmap, cell_number, direction)
        IN /\ ncalls' = ncalls + 1
           /\ fig' = fig \o o.calls
           /\ ret' = Ret("extract_fault_lines", direction, cell_number, o, <<>>)
           /\ UNCHANGED <<model, _color_lot, _cmap, _norm>>

do_plot_topography ==
    /\ ncalls < MaxCalls
    /\ \E cell_number \in Cells, direction \in MainDirections :
      \E line_ok \in LineOks(direction) :
        LET o == plot_topography(model, cell_number, direction, line_ok)
        IN /\ ncalls' = ncalls + 1
           /\ fig' = fig \o o.calls
           /\ ret' = Ret("plot_topography", direction, cell_number, o,
                         [line_ok |-> line_ok])
           /\ UNCHANGED <<model, _color_lot, _cmap, _norm>>

\* topology graphs: nodes, edges, and the centroid of every node
Graphs == {[nodes |-> <<1, 2>>, edges |-> <<>>],
           [nodes |-> <<1, 2>>, edges |-> << <<1, 2>> >>],
           [nodes |-> <<1, 2, 3>>, edges |-> << <<1, 2>>, <<2, 3>> >>]}
Centroids3D(G) == [i \in 1..Len(G.nodes) |-> <<G.nodes[i], <<i - 1, 1, i>> >>]
Centroids2D(G) == [i \in 1..Len(G.nodes) |-> <<G.nodes[i], <<i - 1, i>> >>]

do_plot_topo_g ==
    /\ ncalls < MaxCalls
    /\ \E G \in Graphs, direction \in MainDirections, flat \in BOOLEAN,
       edge_kwargs \in {<<>>, Kw("color", "red")} :
        LET centroids == IF flat THEN Centroids2D(G) ELSE Centroids3D(G)
            o == plot_topo_g(model, G, centroids, direction, <<>>, <<>>, edge_kwargs)
        IN /\ ncalls' = ncalls + 1
           /\ fig' = fig \o o.calls
           /\ ret' = Ret("plot_topo_g", direction, 0, o,
                         [G |-> G, centroids |-> centroids, edge_kwargs |-> edge_kwargs])
           /\ UNCHANGED <<model, _color_lot, _cmap, _norm>>

Next ==
    \/ do_plot_data
    \/ do_plot_block_section
    \/ do_plot_scalar_field
    \/ do_plot_gradient
    \/ do_extract_fault_lines
    \/ do_plot_topography
    \/ do_plot_topo_g

Spec == Init /\ [][Next]_vars

(***************************************************************************)
(* Properties                                                              *)
(***************************************************************************)

\* the descriptor the documentation of the slice selector promises
ExpectedSlice(m, direction, cell_number) ==
    LET res == m.grid.resolution
        e == m.grid.extent
    IN CASE direction = "x" ->
              [a |-> IntIdx(cell_number), b |-> Slice(0, res[2]), c |-> Slice(0, res[3]),
               extent_val |-> <<e[3], e[4], e[5], e[6]>>,
               x |-> "Y", y |-> "Z", Gx |-> "G_y", Gy |-> "G_z"]
         [] direction = "y" ->
              [a |-> Slice(0, res[1]), b |-> IntIdx(cell_number), c |-> Slice(0, res[3]),
               extent_val |-> <<e[1], e[2], e[5], e[6]>>,
               x |-> "X", y |-> "Z", Gx |-> "G_x", Gy |-> "G_z"]
         [] OTHER ->
              [a |-> Slice(0, res[1]), b |-> Slice(0, res[2]), c |-> IntIdx(cell_number),
               extent_val |-> <<e[1], e[2], e[3], e[4]>>,
               x |-> "X", y |-> "Y", Gx |-> "G_x", Gy |-> "G_y"]

\* C1: for each valid direction _slice returns the two free axes at full
\* resolution, the sliced axis fixed at cell_number, the labels, and the extent
\* of the two free axes: (ymin,ymax,zmin,zmax) for 'x', (xmin,xmax,zmin,zmax)
\* for 'y', (xmin,xmax,ymin,ymax) for 'z'.
C1_SliceDescriptor ==
    (ret.op = "_slice" /\ ret.direction \in ValidDirections) =>
        /\ ret.err = "none"
        /\ ret.val = ExpectedSlice(model, ret.direction, ret.cell_number)

\* C2: for every direction other than 'x', 'y', 'z', _slice raises the
\* invalid-argument error (AttributeError) and returns no descriptor.
C2_InvalidDirectionRaises ==
    (ret.op = "_slice" /\ ret.direction \notin ValidDirections) =>
        (ret.err = "AttributeError" /\ ret.val = <<>>)

C2_Witness ==
    ret.op = "_slice" /\ ret.direction = "w" /\ ret.err = "AttributeError"

\* the two resolution components that are not the sliced one
FreeShape(res, direction) ==
    CASE direction = "x" -> <<res[2], res[3]>>
      [] direction = "y" -> <<res[1], res[3]>>
      [] OTHER -> <<res[1], res[2]>>
SlicedLen(res, direction) ==
    CASE direction = "x" -> res[1] [] direction = "y" -> res[2] [] OTHER -> res[3]

\* C4: reshaping a flat array of R0*R1*R2 elements and applying the slice of
\* _slice at an in-range cell gives a 2D array whose dimensions are the two
\* other resolution components, with their product as element count, and the
\* array handed to the drawing call is its transpose.
C4_SectionShape ==
    (/\ ret.op = "section"
     /\ ret.direction \in ValidDirections
     /\ ret.cell_number < SlicedLen(model.grid.resolution, ret.direction)) =>
        /\ ret.err = "none"
        /\ LET sh == FreeShape(model.grid.resolution, ret.direction)
               sec == ret.val.section
               im == ret.val.image
           IN /\ sec.shape = sh
              /\ Len(sec.data) = sh[1] * sh[2]
              /\ im.shape = <<sh[2], sh[1]>>
              /\ Len(im.data) = sh[1] * sh[2]
              /\ \A i \in 0..(sh[1] - 1), j \in 0..(sh[2] - 1) :
                    im.data[j * sh[1] + i + 1] = sec.data[i * sh[2] + j + 1]

\* a section across x at cell 1 whose two free axes have different lengths
C4_Witness ==
    /\ ret.op = "section"
    /\ ret.direction = "x"
    /\ ret.err = "none"
    /\ ret.cell_number = 1
    /\ ret.val.section.shape = <<1, 2>>
    /\ ret.val.image.shape = <<2, 1>>

SurfaceNamesOf(m) == {m.surfaces.rows[i].surface : i \in 1..Len(m.surfaces.rows)}

\* C5: after construction the colour lookup has exactly one entry per surface
\* name of the surfaces table and no duplicate key; each name maps to the colour
\* of the row of that surface (of the last such row if a name is repeated).
C5_ColorLot ==
    ret.op = "__init__" =>
        /\ DictKeys(_color_lot) = SurfaceNamesOf(model)
        /\ Cardinality(DictKeys(_color_lot)) = Len(_color_lot)
        /\ \A i \in 1..Len(model.surfaces.rows) :
              LET row == model.surfaces.rows[i]
              IN (\A j \in (i + 1)..Len(model.surfaces.rows) :
                      model.surfaces.rows[j].surface # row.surface)
                 => DictGet(_color_lot, row.surface) = row.color

\* constructed from a table of two surfaces with different colours
C5_Witness ==
    /\ ret.op = "__init__"
    /\ Len(model.surfaces.rows) = 2
    /\ Len(_color_lot) = 2
    /\ DictGet(_color_lot, "rock1") # DictGet(_color_lot, "rock2")

\* the names of the functions of a sequence of drawing calls
Fns(calls) == [i \in 1..Len(calls) |-> calls[i].fn]
\* the calls of one function, in order
CallsOf(calls, fn) == SelectSeq(calls, LAMBDA c : c.fn = fn)
Repeat(x, n) == [i \in 1..n |-> x]

\* C3: every method that takes a direction besides _slice (extract_fault_lines
\* through _slice2D, plot_topography, plot_topo_g, plot_gradient) reports a
\* direction outside x, y, z as the invalid-argument failure of _slice, an
\* AttributeError: it does not return and does not fail with another error.
C3_DirectionRejectedEverywhere ==
    (/\ ret.op \in {"extract_fault_lines", "plot_topography", "plot_topo_g", "plot_gradient"}
     /\ ret.direction \notin ValidDirections) =>
        ret.err = "AttributeError"

\* C6: no call of a plotting method, returning or raising, changes the
\* external model or the colour lookup, colormap and norm built at construction.
C6_ModelAndLookupUnchanged ==
    [][/\ model' = model
       /\ _color_lot' = _color_lot
       /\ _cmap' = _cmap
       /\ _norm' = _norm]_vars

\* a call that drew on the figure and then ended in an error
C6_Witness ==
    /\ ret.op = "plot_block_section"
    /\ ret.err # "none"
    /\ Len(ret.calls) > 0
    /\ fig # <<>>

\* the library function that the documentation of each method names as the
\* receiver of its keyword arguments
KwReceivers(op) ==
    CASE op = "plot_data" -> {"lmplot"}
      [] op = "plot_block_section" -> {"imshow"}
      [] OTHER -> {"contour", "contourf"}
\* the defaults a method inserts for keys the caller left out
KwDefaults(op) ==
    CASE op = "plot_data" -> Kw("scatter_kws", ScatterKwsDefault)
      [] op = "plot_block_section" -> Kw("cmap", "self._cmap") \o Kw("norm", "self._norm")
      [] op = "plot_scalar_field" -> Kw("cmap", "magma")
      [] OTHER -> <<>>

\* C7: in plot_data, plot_block_section, plot_scalar_field and plot_gradient
\* every keyword argument of the caller reaches the underlying plotting call
\* with the caller's value, and a default is used only for a key the caller did
\* not supply.
C7_KwargsPassedThrough ==
    (ret.op \in {"plot_data", "plot_block_section", "plot_scalar_field", "plot_gradient"}) =>
        \A i \in 1..Len(ret.calls) :
            ret.calls[i].fn \in KwReceivers(ret.op) =>
                LET kw == ret.calls[i].kw
                    given == ret.args.kwargs
                    dflt == KwDefaults(ret.op)
                IN /\ \A j \in 1..Len(given) :
                        DictHas(kw, given[j][1]) /\ DictGet(kw, given[j][1]) = given[j][2]
                   /\ \A j \in 1..Len(dflt) :
                        DictHas(given, dflt[j][1]) \/
                        (DictHas(kw, dflt[j][1]) /\ DictGet(kw, dflt[j][1]) = dflt[j][2])

\* the array the documentation of plot_block_section selects
DocumentedBlock(m, block, block_type) ==
    IF block.kind = "array" THEN block.arr
    ELSE IF block_type.str = "lithology" THEN m.solutions.lith_block
    ELSE m.solutions.fault_blocks

\* C8: plot_block_section always has an array selected when it reshapes: an
\* array passed as block is used as given, with a warning; with block left at
\* its default, block_type 'lithology' selects solution.lith_block and 'fault1'
\* solution.fault_blocks; another block_type that names a column of the
\* surfaces table also selects a block.  (Stated for calls with a valid
\* direction, a cell in range, no overlay and no clashing keyword, so that
\* nothing but the selection can fail.)
C8_BlockSelected ==
    (/\ ret.op = "plot_block_section"
     /\ ret.direction \in ValidDirections
     /\ ret.cell_number < SlicedLen(model.grid.resolution, ret.direction)
     /\ ~ret.args.plot_data /\ ~ret.args.show_faults /\ ~ret.args.show_topo
     /\ DictKeys(ret.args.kwargs) \cap ImshowNamed = {}) =>
        /\ (ret.args.block.kind \in {"array", "None"}
             /\ ret.args.block_type.str \in {"lithology", "fault1"}) =>
               /\ ret.err = "none"
               /\ LET want == Section(model,
                                      DocumentedBlock(model, ret.args.block,
                                                      ret.args.block_type),
                                      ret.direction, ret.cell_number)
                  IN CallsOf(ret.calls, "imshow")[1].arr = want.val.image
               /\ (ret.args.block.kind = "array") => (ret.warn = <<"FutureWarning">>)
        /\ (ret.args.block.kind # "array"
             /\ ret.args.block_type.str \in model.surfaces.columns) =>
               ret.err = "none"

\* the drawing calls of plot_data(direction, 'all')
DataOverlayFns == <<"lmplot", "set_ylim", "set_xlim", "quiver", "legend", "xlabel", "ylabel">>

\* C9: a plot_block_section call with a valid direction that returns has drawn,
\* in this order: the data-point overlay iff plot_data, the raster exactly
\* once, the contour of every fault iff show_faults, the topography mask iff
\* show_topo and the model has a topography, the surface legend with one patch
\* per entry of the colour lookup iff not plot_data, and last the two axis
\* labels; it returns the current figure.
C9_OverlaysAsRequested ==
    (/\ ret.op = "plot_block_section"
     /\ ret.direction \in ValidDirections
     /\ ret.err = "none") =>
        /\ Fns(ret.calls) =
              (IF ret.args.plot_data THEN DataOverlayFns ELSE <<>>)
              \o <<"imshow">>
              \o (IF ret.args.show_faults THEN Repeat("contour", Len(model.faults)) ELSE <<>>)
              \o (IF ret.args.show_topo /\ model.topography THEN <<"fill">> ELSE <<>>)
              \o (IF ~ret.args.plot_data THEN <<"legend">> ELSE <<>>)
              \o <<"xlabel", "ylabel">>
        /\ ~ret.args.plot_data =>
              LET legend == CallsOf(ret.calls, "legend")[1]
              IN /\ DictHas(legend.kw, "handles")
                 /\ Len(legend.items) = Len(_color_lot)
                 /\ \A i \in 1..Len(_color_lot) :
                       /\ legend.items[i].label = _color_lot[i][1]
                       /\ legend.items[i].color = _color_lot[i][2]
        /\ ret.val = "figure"

\* a returning call with every overlay requested, on a model with a fault, a
\* topography and two surfaces
C9_Witness ==
    /\ ret.op = "plot_block_section"
    /\ ret.direction = "y"
    /\ ret.err = "none"
    /\ ret.args.plot_data /\ ret.args.show_faults /\ ret.args.show_topo
    /\ model.topography
    /\ Len(model.faults) = 1
    /\ Len(_color_lot) = 2
    /\ Len(CallsOf(ret.calls, "contour")) = 1
    /\ Len(CallsOf(ret.calls, "fill")) = 1

\* C10: for each of the directions 'x', 'y', 'z', on a model with a
\* topography (whose _line_in_section returns the line of the section),
\* plot_topography draws the topography mask without raising, and so does
\* plot_block_section with show_topo once it has drawn the raster (here
\* without fault contours).
C10_TopographyEveryDirection ==
    /\ (/\ ret.op = "plot_topography"
        /\ ret.direction \in ValidDirections
        /\ ret.args.line_ok
        /\ model.topography) =>
           (ret.err = "none" /\ Fns(ret.calls) = <<"fill">>)
    /\ (/\ ret.op = "plot_block_section"
        /\ ret.direction \in ValidDirections
        /\ model.topography
        /\ ret.args.line_ok
        /\ ret.args.show_topo /\ ~ret.args.show_faults
        /\ Len(CallsOf(ret.calls, "imshow")) = 1) =>
           (ret.err = "none" /\ Len(CallsOf(ret.calls, "fill")) = 1)

\* the two plotted axes (1 = x, 2 = y, 3 = z) of the section plane
PlottedAxes(direction) ==
    CASE direction = "x" -> <<2, 3>> [] direction = "y" -> <<1, 3>> [] OTHER -> <<1, 2>>

\* a centroid projected onto the plane and scaled as
\* centroid * extent_length / resolution + extent_min on both plotted axes
\* (each coordinate a fraction <<numerator, denominator>>)
ProjectedPoint(m, c, direction) ==
    LET ax == PlottedAxes(direction)
        ix == IF Len(c) = 2 THEN <<1, 2>> ELSE ax
        Coord(k) ==
            LET lo == m.grid.extent[2 * ax[k] - 1]
                hi == m.grid.extent[2 * ax[k]]
                r == m.grid.resolution[ax[k]]
            IN <<c[ix[k]] * (hi - lo) + lo * r, r>>
    IN <<Coord(1), Coord(2)>>

\* C11: for a graph whose nodes all have centroids and a valid direction,
\* plot_topo_g returns having drawn every edge of G as a line between the
\* projected, scaled centroids of its ends, and every node of G as a marker
\* and a label at its projected, scaled centroid, whatever the number of
\* edges of G.
C11_EveryEdgeAndNodeDrawn ==
    (/\ ret.op = "plot_topo_g"
     /\ ret.direction \in ValidDirections) =>
        LET G == ret.args.G
            P(n) == ProjectedPoint(model, DictGet(ret.args.centroids, n), ret.direction)
            Drawn(fn, pts) == \E k \in 1..Len(ret.calls) :
                                 ret.calls[k].fn = fn /\ ret.calls[k].pts = pts
        IN /\ ret.err = "none"
           /\ \A i \in 1..Len(G.edges) :
                 LET a == P(G.edges[i][1])
                     b == P(G.edges[i][2])
                 IN Drawn("plot", <<a[1], b[1], a[2], b[2]>>)
           /\ \A i \in 1..Len(G.nodes) :
                 /\ Drawn("plot", P(G.nodes[i]))
                 /\ \E k \in 1..Len(ret.calls) :
                       /\ ret.calls[k].fn = "text"
                       /\ ret.calls[k].pts = P(G.nodes[i])
                       /\ ret.calls[k].text = <<Str(G.nodes[i])>>

\* the methods that pass their direction to _slice or test it themselves
SlicingPlots == {"plot_data", "plot_block_section", "plot_scalar_field", "plot_gradient"}

\* C12: a call of plot_data, plot_block_section, plot_scalar_field or
\* plot_gradient with a direction outside {'x','y','z'} raises, and raises
\* before any drawing call: the figure context after the call is the one
\* before it, whatever the other arguments.
C12_InvalidDirectionDrawsNothing ==
    [][(/\ ncalls' = ncalls + 1
        /\ ret'.op \in SlicingPlots
        /\ ret'.direction \notin ValidDirections) =>
           (/\ ret'.err # "none"
            /\ ret'.calls = <<>>
            /\ fig' = fig)]_vars

\* plot_scalar_field with the data overlay requested and an unrecognised
\* direction has failed on a figure that already held a drawing
C12_Witness ==
    /\ ret.op = "plot_scalar_field"
    /\ ret.direction = "w"
    /\ ret.args.plot_data
    /\ ret.err = "AttributeError"
    /\ Len(fig) = 1

\* C13: for every valid direction and cell number, _slice2D(cell_number,
\* direction) and _slice(direction, cell_number) both return, with the same
\* 4-element extent, and indexing any array reshaped to the grid resolution
\* with either selection has the same outcome: the same 2D sub-array, or an
\* IndexError from both when the cell is outside the grid.  The transposed
\* section and extent that the raster of plot_block_section is drawn with are
\* therefore those a fault contour is drawn with.
C13_SliceHelpersAgree ==
    (/\ ret.op = "_slice2D"
     /\ ret.direction \in ValidDirections) =>
        LET s == _slice(model, ret.direction, ret.cell_number)
            res == model.grid.resolution
        IN /\ ret.err = "none"
           /\ s.err = "none"
           /\ Len(ret.val.extent) = 4
           /\ ret.val.extent = s.val.extent_val
           /\ \A block \in FlatArrays(Prod(res)) :
                 LET pb == reshape(block, res).val
                     by2D == Index3(pb, ret.val.a, ret.val.b, ret.val.c)
                     by3 == Index3(pb, s.val.a, s.val.b, s.val.c)
                     raster == Section(model, block, ret.direction, ret.cell_number)
                 IN /\ by2D.err = by3.err
                    /\ raster.err = by2D.err
                    /\ by2D.err = "none" =>
                          /\ Len(by2D.val.shape) = 2
                          /\ by2D.val = by3.val
                          /\ raster.val.image = T(by2D.val)
                          /\ raster.val.extent = ret.val.extent

\* _slice2D has returned for a horizontal section at cell 1 of a grid with
\* two cells along z and more than one cell along x
C13_Witness ==
    /\ ret.op = "_slice2D"
    /\ ret.direction = "z"
    /\ ret.cell_number = 1
    /\ ret.err = "none"
    /\ model.grid.resolution[3] = 2
    /\ model.grid.resolution[1] = 2

====
